---- MODULE Spec2Model ----
(***************************************************************************)
(* Hotel front-end: the session lifecycle (AuthContext, auth.service, the  *)
(* axios interceptors of api.service, LoginPage, ProtectedRoute,           *)
(* MainLayout) and the reservation list view (ReservationsListPage).       *)
(*                                                                         *)
(* Spec      the session lifecycle: login, logout, navigation, reload and  *)
(*           the responses of Gateway Client calls.                        *)
(* SpecList  the reservation list view of an authenticated user.           *)
(* SpecBoot  the session lifecycle started on whatever localStorage holds. *)
(* SpecForm  the reservation form (ReservationFormPage) of an              *)
(*           authenticated user: its initial load and its submission.      *)
(* SpecDetail the reservation detail view (ReservationDetailPage) of an    *)
(*           authenticated user: its fetch and its status actions.         *)
(***************************************************************************)
EXTENDS Integers, Sequences, FiniteSets, TLC

VARIABLES
  storage,        \* localStorage: authToken, refreshToken, authUser
  token,          \* AuthProvider state `token`
  user,           \* AuthProvider state `user`
  authLoading,    \* AuthProvider state `isLoading`
  location,       \* the router's current pathname
  locationState,  \* location.state?.from?.pathname ("" when absent)
  allowedRoles,   \* the allowedRoles prop of the /app/reservations route
  loginLoading,   \* LoginPage state `isLoading` (its call is in flight)
  loginError,     \* LoginPage state `error`
  staleLogins,    \* token calls in flight whose LoginPage was unmounted
  pendingRes,     \* resource calls in flight
  lastOp,         \* history: the operation that produced this state
  lastResp,       \* history: the response that operation handled
  lastError,      \* history: message of the Error authService.login threw
  lastReturn,     \* history: the {token, user} authService.login returned
  sess,           \* history: last of set / clear / 401 to touch the session
  requested,      \* history: guarded pathname the guard last sent to login
  guardL,         \* history: pathname the guard decided on in this step
  guardOut,       \* history: that decision ("" when the guard did not run)
  lastSet,        \* history: the pair of the last set(), none after a clear()
  corruptAtLoad,  \* history: the last load found an unparsable authUser
  sentHeaders,    \* history: Authorization header of each request just sent
  lastThrown,     \* history: the error a service's caller just received
  reservations,   \* ReservationsListPage state (below)
  listLoading,
  listError,
  currentPage,
  totalPages,
  totalCount,
  statusFilter,
  checkInDateFromFilter,
  checkInDateToFilter,
  guestEmailFilter,
  listReqs,       \* list calls of the mounted view in flight, oldest first
  staleListReqs,  \* list calls in flight whose view was unmounted
  lastSent,       \* history: the list requests the last operation sent
  lastData,       \* history: the body of the list response last handled
  formId,         \* ReservationFormPage: useParams().id ("" on the new form)
  formLoading,    \* ReservationFormPage state `isLoading`
  isSubmitting,
  formError,      \* ReservationFormPage state `error`
  formErrors,     \* ReservationFormPage state `formErrors`
  loadCalls,      \* the guests / room types / rooms calls of loadInitialData
  reservationCall,\* its getReservationById call
  loadPhase,      \* where loadInitialData stands
  formReceived,   \* history: what handleSubmit's service call returned
  reservation,    \* ReservationDetailPage state `reservation`
  detailLoading,  \* ReservationDetailPage state `isLoading`
  detailError,    \* ReservationDetailPage state `error`
  isLoadingAction,
  actionError,
  actionSuccess,
  detailFetches,  \* getReservationById calls of the mounted view in flight
  actionCalls,    \* status actions of the mounted view in flight
  refreshAfter,   \* history: success message of the action the fetch in
                  \* flight (or just settled) refreshes after ("" if none)
  sentAction      \* history: the status action requested in this step

authVars == <<storage, token, user, authLoading>>
navVars == <<location, locationState, allowedRoles, requested, guardL, guardOut>>
loginVars == <<loginLoading, loginError, staleLogins>>
histVars == <<lastOp, lastResp, lastError, lastReturn, sess, lastSet,
              corruptAtLoad, sentHeaders, lastThrown>>
filterVars == <<statusFilter, checkInDateFromFilter, checkInDateToFilter,
                guestEmailFilter>>
listVars == <<reservations, listLoading, listError, currentPage, totalPages,
              totalCount, filterVars, listReqs, staleListReqs, lastSent,
              lastData>>
formVars == <<formId, formLoading, isSubmitting, formError, formErrors,
              loadCalls, reservationCall, loadPhase, formReceived>>
detailVars == <<reservation, detailLoading, detailError, isLoadingAction,
                actionError, actionSuccess, detailFetches, actionCalls,
                refreshAfter, sentAction>>
vars == <<authVars, navVars, loginVars, pendingRes, histVars, listVars,
          formVars, detailVars>>

----------------------------------------------------------------------------
\* Bounds of the model.
MaxPending == 1
MaxStale == 1

\* null / undefined, and a present value.
None == <<>>
Some(x) == <<x>>
Val(o) == o[1]

----------------------------------------------------------------------------
\* Access credentials the backend may issue, with what the middle segment of
\* each decodes to ("" is an absent claim).
Tokens == {"tA", "tF", "tN", "tX"}

JwtPayload(t) ==
  CASE t = "tA" -> [decodable |-> TRUE, username |-> "staff", role |-> "ADMIN"]
    [] t = "tF" -> [decodable |-> TRUE, username |-> "", role |-> "FRONT_DESK"]
    [] t = "tN" -> [decodable |-> TRUE, username |-> "", role |-> ""]
    [] OTHER -> [decodable |-> FALSE, username |-> "", role |-> ""]

Details == {"No active account found"}

NoReturn == [token |-> "", user |-> [username |-> "", role |-> ""]]

NoResp ==
  [kind |-> "none", status |-> 0, access |-> "", refresh |-> "", detail |-> ""]

\* What the backend may answer to POST /token/.
LoginResponses ==
  {[kind |-> "ok", status |-> 200, access |-> a, refresh |-> r, detail |-> ""] :
     a \in Tokens \cup {""}, r \in {"", "r1"}}
  \cup
  {[kind |-> "status", status |-> s, access |-> "", refresh |-> "", detail |-> d] :
     s \in {400, 401}, d \in Details \cup {""}}
  \cup
  {[kind |-> "noresponse", status |-> 0, access |-> "", refresh |-> "",
    detail |-> ""]}

\* What the backend may answer to a resource call, as far as the session goes.
ResourceResponses ==
  {[kind |-> "ok", status |-> 200, access |-> "", refresh |-> "", detail |-> ""],
   [kind |-> "status", status |-> 401, access |-> "", refresh |-> "", detail |-> ""],
   [kind |-> "status", status |-> 500, access |-> "", refresh |-> "", detail |-> ""],
   [kind |-> "status", status |-> 400, access |-> "", refresh |-> "",
    detail |-> "Invalid page."],
   [kind |-> "noresponse", status |-> 0, access |-> "", refresh |-> "", detail |-> ""],
   [kind |-> "setup", status |-> 0, access |-> "", refresh |-> "", detail |-> ""]}

GuardedRoutes == {"/app/dashboard", "/app/reservations"}
Routes == GuardedRoutes \cup {"/login"}
RoleConfigs == {None, Some({"ADMIN"})}

----------------------------------------------------------------------------
\* JSON.stringify of a user object, as the text's tokens.
JSONstringify(u) == <<"username", u.username, "role", u.role>>

\* JSON.parse: whether the text parses, and the object it parses to.
JSONparseOk(s) == Len(s) = 4 /\ s[1] = "username" /\ s[3] = "role"

\* Mutant: the role is lost when the stored profile is read back.
JSONparse_DropsRole(s) == [username |-> s[2], role |-> ""]

JSONparse(s) == [username |-> s[2], role |-> s[4]]

\* parseJwt: the claims, or null when the segment does not decode.
parseJwt(t) ==
  IF JwtPayload(t).decodable
    THEN Some([username |-> JwtPayload(t).username, role |-> JwtPayload(t).role])
    ELSE None

\* Mutant: the claims are copied without the 'User' / 'GUEST' defaults.
BuildUser_NoDefaults(t) ==
  [username |-> JwtPayload(t).username, role |-> JwtPayload(t).role]

\* The user object authService.login builds from the decoded token.
BuildUser(t) ==
  LET decodedToken == parseJwt(t) IN
  [username |-> IF decodedToken # None /\ Val(decodedToken).username # ""
                  THEN Val(decodedToken).username ELSE "User",
   role |-> IF decodedToken # None /\ Val(decodedToken).role # ""
              THEN Val(decodedToken).role ELSE "GUEST"]

----------------------------------------------------------------------------
\* The session: durable storage and the AuthProvider's state.
Session == [storage |-> storage, token |-> token, user |-> user]

AuthProvider_login(S, newToken, newUserDetails) ==
  [storage |-> [S.storage EXCEPT !.authToken = Some(newToken),
                                 !.authUser = Some(JSONstringify(newUserDetails))],
   token |-> Some(newToken),
   user |-> Some(newUserDetails)]

\* Mutant: logout clears the storage keys and leaves the state in memory.
AuthProvider_logout_KeepsState(S) ==
  [storage |-> [S.storage EXCEPT !.authToken = None, !.authUser = None],
   token |-> S.token,
   user |-> S.user]

\* Mutant: logout removes the credential keys and leaves the stored profile.
AuthProvider_logout_KeepsProfile(S) ==
  [storage |-> [S.storage EXCEPT !.authToken = None, !.refreshToken = None],
   token |-> None,
   user |-> None]

AuthProvider_logout(S) ==
  [storage |-> [S.storage EXCEPT !.authToken = None, !.authUser = None],
   token |-> None,
   user |-> None]

\* !!token
isAuthenticated(tok) == tok # None /\ Val(tok) # ""

\* Mutant: the children are rendered while the initial check is running.
ChildrenRendered_NoGate(loading) == TRUE

\* AuthProvider renders its children once isLoading is false.
ChildrenRendered(loading) == ~loading

\* The request interceptor: the Authorization header it puts on a request
\* (None when it puts none), from the authToken key of localStorage.
requestInterceptor(st) ==
  IF st.authToken # None /\ Val(st.authToken) # ""
    THEN Some(<<"Bearer", Val(st.authToken)>>)
    ELSE None

\* The error axios hands to the response interceptor for a failed call: it
\* has a response (status and payload), or only a request, or neither.
AxiosError(resp) ==
  [cause |-> IF resp.kind = "status" THEN "response"
             ELSE IF resp.kind = "noresponse" THEN "request" ELSE "setup",
   status |-> resp.status,
   data |-> resp.detail]

\* The response interceptor ends with Promise.reject(error).
interceptorRejects(error) == error

\* A service's catch: console.error, then throw error.
serviceRethrows(error) == error

\* What the caller of a resource service receives for a failed call.
Thrown(resp) == Some(serviceRethrows(interceptorRejects(AxiosError(resp))))

\* Mutant: the interceptor drops the credential on every error status.
responseInterceptor_AnyStatus(st, resp) ==
  IF resp.kind = "status" THEN [st EXCEPT !.authToken = None] ELSE st

\* The response interceptor's effect on localStorage.
responseInterceptor(st, resp) ==
  IF resp.kind = "status" /\ resp.status = 401
    THEN [st EXCEPT !.authToken = None]
    ELSE st

\* Mutant: the backend's detail is dropped from the Error.
LoginErrorMessage_NoDetail(resp) ==
  IF resp.kind = "ok"
    THEN <<"Login failed", ": No access token received.">>
    ELSE IF resp.kind = "status" THEN <<"Login failed">> ELSE <<"Network Error">>

\* The message of the Error authService.login throws for a failed call.
LoginErrorMessage(resp) ==
  IF resp.kind = "ok"
    THEN <<"Login failed", ": No access token received.">>
    ELSE IF resp.kind = "status"
      THEN (IF resp.detail # "" THEN <<resp.detail>> ELSE <<"Login failed">>)
      ELSE <<"Network Error">>

\* authService.login once the call has settled with resp.
authService_login(st, resp) ==
  LET st1 == responseInterceptor(st, resp) IN
  IF resp.kind = "ok" /\ resp.access # ""
    THEN [ok |-> TRUE,
          storage |-> [st1 EXCEPT !.authToken = Some(resp.access),
                                  !.refreshToken = IF resp.refresh # ""
                                                     THEN Some(resp.refresh)
                                                     ELSE @],
          token |-> resp.access,
          user |-> BuildUser(resp.access),
          message |-> <<>>]
    ELSE [ok |-> FALSE,
          storage |-> st1,
          token |-> "",
          user |-> [username |-> "", role |-> ""],
          message |-> LoginErrorMessage(resp)]

\* Mutant: a role outside the allowed set is sent to the login page.
ProtectedRoute_RoleToLogin(tok, usr, roles) ==
  IF ~isAuthenticated(tok)
    THEN "login"
    ELSE IF roles # None /\ usr # None /\ Val(usr).role # ""
            /\ Val(usr).role \notin Val(roles)
      THEN "login"
      ELSE "outlet"

\* Mutant: the allowed role set is ignored.
ProtectedRoute_NoRoleCheck(tok, usr, roles) ==
  IF ~isAuthenticated(tok) THEN "login" ELSE "outlet"

\* ProtectedRoute's decision.
ProtectedRoute(tok, usr, roles) ==
  IF ~isAuthenticated(tok)
    THEN "login"
    ELSE IF roles # None /\ usr # None /\ Val(usr).role # ""
            /\ Val(usr).role \notin Val(roles)
      THEN "dashboard"
      ELSE "outlet"

\* The allowedRoles of the route at pathname L.
RouteRoles(L) == IF L = "/app/reservations" THEN allowedRoles ELSE None

\* Where a navigation to L ends.
Landing(L, tok, usr) ==
  IF L \notin GuardedRoutes
    THEN L
    ELSE LET d == ProtectedRoute(tok, usr, RouteRoles(L)) IN
         IF d = "login" THEN "/login"
         ELSE IF d = "dashboard" THEN "/app/dashboard"
         ELSE L

\* The location.state ProtectedRoute hands to /login: <Navigate to="/login"
\* replace /> passes none.
RedirectState(L) == ""

\* LoginPage's `from`.
LoginFrom(st) == IF st # "" THEN st ELSE "/app/dashboard"

----------------------------------------------------------------------------
\* The reservation list view.
PageSize == 10
Missing == 0 - 1

StatusValues == {"", "CONFIRMED", "PENDING"}
DateValues == {"", "2024-05-01"}
EmailValues == {"", "ann@example.com"}

\* Bodies the backend may answer a list call with: count and the length of
\* results, each possibly missing.
ListData ==
  {[count |-> c, results |-> r] :
     c \in {Missing, 0, 5, 25}, r \in {Missing, 0, 10}}
NoData == [count |-> Missing, results |-> Missing]

NoParams ==
  [page |-> 0, status |-> "", check_in_date__gte |-> "",
   check_in_date__lte |-> "", search |-> ""]

\* The currentFilters object the effect builds from the filter state.
currentFilters(st, from, to, email) ==
  [status |-> st, check_in_date_after |-> from, check_in_date_before |-> to,
   guest_email |-> email]

\* The query parameters fetchReservations builds ("" is an omitted key).
Params(page, filters) ==
  [page |-> page,
   status |-> filters.status,
   check_in_date__gte |-> filters.check_in_date_after,
   check_in_date__lte |-> filters.check_in_date_before,
   search |-> filters.guest_email]

\* Math.ceil(count / pageSize)
CeilDiv(a, b) == (a + b - 1) \div b

\* The totalPages fetchReservations leaves after a body, given the old one.
NewTotalPages(data, old) ==
  IF data.count # Missing /\ data.count # 0 /\ data.results > 0
    THEN CeilDiv(data.count, PageSize)
    ELSE IF data.count = 0 THEN 0 ELSE old

\* data.results.length throws when count is truthy and results is missing.
ListThrows(data) ==
  data.count # Missing /\ data.count # 0 /\ data.results = Missing

FetchFailed == "Failed to fetch reservations. Please try again later."

----------------------------------------------------------------------------
\* The reservation form.
LoadCallNames == {"guests", "roomTypes", "rooms"}
NoReservation == [id |-> "", status |-> ""]
NoFields == {}

\* No ReservationFormPage is mounted.
FormAbsent ==
  /\ formId = ""
  /\ formLoading = FALSE
  /\ isSubmitting = FALSE
  /\ formError = ""
  /\ formErrors = NoFields
  /\ loadCalls = [c \in LoadCallNames |-> "idle"]
  /\ reservationCall = "idle"
  /\ loadPhase = "idle"
  /\ formReceived = NoReservation

\* No ReservationDetailPage is mounted.
DetailAbsent ==
  /\ reservation = None
  /\ detailLoading = FALSE
  /\ detailError = ""
  /\ isLoadingAction = FALSE
  /\ actionError = ""
  /\ actionSuccess = ""
  /\ detailFetches = 0
  /\ actionCalls = <<>>
  /\ refreshAfter = ""
  /\ sentAction = ""

\* No ReservationsListPage has fetched yet.
ListFresh ==
  /\ reservations = [len |-> 0, of |-> NoParams]
  /\ listLoading = TRUE
  /\ listError = ""
  /\ currentPage = 1
  /\ totalPages = 0
  /\ totalCount = 0
  /\ statusFilter = ""
  /\ checkInDateFromFilter = ""
  /\ checkInDateToFilter = ""
  /\ guestEmailFilter = ""

\* The history of a program that has done nothing yet.
NoHistory ==
  /\ lastResp = NoResp
  /\ lastError = <<>>
  /\ lastReturn = NoReturn
  /\ requested = ""
  /\ guardL = ""
  /\ guardOut = ""
  /\ sentHeaders = <<>>
  /\ lastThrown = None
  /\ lastData = NoData

Init ==
  /\ storage = [authToken |-> None, refreshToken |-> None, authUser |-> None]
  /\ token = None
  /\ user = None
  /\ authLoading = TRUE
  /\ location \in Routes
  /\ locationState = ""
  /\ allowedRoles \in RoleConfigs
  /\ loginLoading = FALSE
  /\ loginError = <<>>
  /\ staleLogins = 0
  /\ pendingRes = 0
  /\ lastOp = "Init"
  /\ sess = "none"
  /\ lastSet = NoReturn
  /\ corruptAtLoad = FALSE
  /\ NoHistory
  /\ ListFresh
  /\ listReqs = <<>>
  /\ staleListReqs = 0
  /\ lastSent = <<>>
  /\ FormAbsent
  /\ DetailAbsent

\* What an operation that handles no login response leaves in the history.
Did(op) ==
  /\ lastOp' = op
  /\ lastError' = <<>>
  /\ lastReturn' = NoReturn

\* A navigation to L: the guard decides where it ends.
GoTo(L, tok, usr) ==
  /\ location' = Landing(L, tok, usr)
  /\ locationState' = IF L \in GuardedRoutes /\ Landing(L, tok, usr) = "/login"
                        THEN RedirectState(L) ELSE ""
  /\ allowedRoles' = allowedRoles
  /\ guardL' = IF L \in GuardedRoutes THEN L ELSE ""
  /\ guardOut' = IF L \in GuardedRoutes
                   THEN ProtectedRoute(tok, usr, RouteRoles(L)) ELSE ""

\* The guarded pathname a navigation to L was turned away from, if it was.
TurnedAway(L, tok, usr) ==
  IF L \in GuardedRoutes /\ Landing(L, tok, usr) = "/login" THEN L ELSE ""

\* AuthProvider's useState initialisers, run on the localStorage st: whether
\* the stored user fails to parse, and the state and storage they leave.
StoredUserCorrupt(st) == st.authUser # None /\ ~JSONparseOk(Val(st.authUser))

InitialToken(st) == st.authToken

InitialUser(st) ==
  IF st.authUser # None /\ ~StoredUserCorrupt(st)
    THEN Some(JSONparse(Val(st.authUser))) ELSE None

InitialStorage(st) ==
  IF StoredUserCorrupt(st) THEN [st EXCEPT !.authUser = None] ELSE st

\* No request sent and no error thrown in this step.
Quiet ==
  /\ sentHeaders' = <<>>
  /\ lastThrown' = None

\* The browser reloads the page: AuthProvider's useState initialisers.
Reload ==
  /\ token' = InitialToken(storage)
  /\ user' = InitialUser(storage)
  /\ storage' = InitialStorage(storage)
  /\ corruptAtLoad' = StoredUserCorrupt(storage)
  /\ authLoading' = TRUE
  /\ loginLoading' = FALSE
  /\ loginError' = <<>>
  /\ staleLogins' = 0
  /\ pendingRes' = 0
  /\ guardL' = ""
  /\ guardOut' = ""
  /\ Did("Reload")
  /\ lastResp' = NoResp
  /\ Quiet
  /\ UNCHANGED <<location, locationState, allowedRoles, requested, sess,
                 lastSet, listVars, formVars, detailVars>>

\* AuthProvider's mount effect, then the first render of the routes.
MountEffect ==
  LET storedToken == storage.authToken
      storedUserJson == storage.authUser
      both == storedToken # None /\ storedUserJson # None
      bad == both /\ ~JSONparseOk(Val(storedUserJson))
      tok == IF bad THEN None ELSE IF both THEN storedToken ELSE token
      usr == IF bad THEN None
             ELSE IF both THEN Some(JSONparse(Val(storedUserJson))) ELSE user
  IN
  /\ authLoading
  /\ storage' = IF bad THEN [storage EXCEPT !.authToken = None, !.authUser = None]
                ELSE storage
  /\ guardL' = IF location \in GuardedRoutes THEN location ELSE ""
  /\ guardOut' = IF location \in GuardedRoutes
                   THEN ProtectedRoute(tok, usr, RouteRoles(location)) ELSE ""
  /\ Quiet
  /\ token' = tok
  /\ user' = usr
  /\ authLoading' = FALSE
  /\ location' = Landing(location, tok, usr)
  /\ locationState' = IF Landing(location, tok, usr) # location
                        THEN RedirectState(location) ELSE locationState
  /\ requested' = IF TurnedAway(location, tok, usr) # ""
                    THEN location ELSE requested
  /\ allowedRoles' = allowedRoles
  /\ Did("MountEffect")
  /\ lastResp' = NoResp
  /\ UNCHANGED <<loginVars, pendingRes, sess, lastSet, corruptAtLoad, listVars,
                 formVars, detailVars>>

\* The user follows a link (or the history) to another route; a LoginPage
\* that is left with its call in flight leaves that call behind.
Navigate(L) ==
  /\ ChildrenRendered(authLoading)
  /\ L # location
  /\ staleLogins + (IF loginLoading THEN 1 ELSE 0) <= MaxStale
  /\ GoTo(L, token, user)
  /\ requested' = TurnedAway(L, token, user)
  /\ staleLogins' = staleLogins + (IF loginLoading THEN 1 ELSE 0)
  /\ loginLoading' = FALSE
  /\ loginError' = <<>>
  /\ Did("Navigate")
  /\ lastResp' = NoResp
  /\ Quiet
  /\ UNCHANGED <<authVars, pendingRes, sess, lastSet, corruptAtLoad, listVars,
                 formVars, detailVars>>

\* MainLayout.handleLogout: logout(), then navigate('/login').
handleLogout ==
  LET S == AuthProvider_logout(Session) IN
  /\ ChildrenRendered(authLoading)
  /\ location \in GuardedRoutes
  /\ user # None
  /\ storage' = S.storage
  /\ token' = S.token
  /\ user' = S.user
  /\ GoTo("/login", S.token, S.user)
  /\ requested' = ""
  /\ sess' = "clear"
  /\ lastSet' = NoReturn
  /\ Did("Logout")
  /\ lastResp' = NoResp
  /\ Quiet
  /\ UNCHANGED <<authLoading, loginVars, pendingRes, corruptAtLoad, listVars,
                 formVars, detailVars>>

\* LoginPage.handleSubmit up to the await: the token call is sent.
handleSubmit ==
  /\ ChildrenRendered(authLoading)
  /\ location = "/login"
  /\ ~loginLoading
  /\ loginError' = <<>>
  /\ loginLoading' = TRUE
  /\ Did("LoginSubmit")
  /\ lastResp' = NoResp
  /\ sentHeaders' = <<requestInterceptor(storage)>>
  /\ lastThrown' = None
  /\ UNCHANGED <<authVars, navVars, staleLogins, pendingRes, sess, lastSet,
                 corruptAtLoad, listVars, formVars, detailVars>>

\* The token call settles with resp: the rest of authService.login and of
\* handleSubmit.  live: the LoginPage that sent it is still mounted.
LoginSettles(resp, live) ==
  LET r == authService_login(storage, resp)
      S == AuthProvider_login([storage |-> r.storage, token |-> token, user |-> user],
                              r.token, r.user)
  IN
  /\ IF live THEN loginLoading ELSE staleLogins > 0
  /\ lastResp' = resp
  /\ lastError' = r.message
  /\ IF r.ok
       THEN /\ storage' = S.storage
            /\ token' = S.token
            /\ user' = S.user
            /\ GoTo(LoginFrom(locationState), S.token, S.user)
            /\ requested' = requested
            /\ loginLoading' = FALSE
            /\ loginError' = <<>>
            /\ staleLogins' = IF live THEN staleLogins
                              ELSE staleLogins - 1 + (IF loginLoading THEN 1 ELSE 0)
            /\ sess' = "set"
            /\ lastSet' = [token |-> r.token, user |-> r.user]
            /\ lastReturn' = [token |-> r.token, user |-> r.user]
            /\ lastOp' = IF live THEN "LoginSuccess" ELSE "StaleLoginSuccess"
       ELSE /\ storage' = r.storage
            /\ UNCHANGED <<token, user, navVars>>
            /\ loginLoading' = IF live THEN FALSE ELSE loginLoading
            /\ loginError' = IF live THEN r.message ELSE loginError
            /\ staleLogins' = IF live THEN staleLogins ELSE staleLogins - 1
            /\ sess' = IF resp.kind = "status" /\ resp.status = 401
                         THEN "401" ELSE sess
            /\ lastSet' = lastSet
            /\ lastReturn' = NoReturn
            /\ lastOp' = IF live THEN "LoginFailure" ELSE "StaleLoginFailure"
  /\ Quiet
  /\ UNCHANGED <<authLoading, pendingRes, corruptAtLoad, listVars, formVars, detailVars>>

LoginResponse == \E resp \in LoginResponses : LoginSettles(resp, TRUE)

StaleLoginResponse == \E resp \in LoginResponses : LoginSettles(resp, FALSE)

\* A view behind the guard calls a resource service.
ResourceRequest ==
  /\ ChildrenRendered(authLoading)
  /\ location \in GuardedRoutes
  /\ pendingRes < MaxPending
  /\ pendingRes' = pendingRes + 1
  /\ Did("ResourceRequest")
  /\ lastResp' = NoResp
  /\ sentHeaders' = <<requestInterceptor(storage)>>
  /\ lastThrown' = None
  /\ UNCHANGED <<authVars, navVars, loginVars, sess, lastSet, corruptAtLoad,
                 listVars, formVars, detailVars>>

\* A resource call settles: the response interceptor runs.
ResourceResponse ==
  \E resp \in ResourceResponses :
    /\ pendingRes > 0
    /\ pendingRes' = pendingRes - 1
    /\ storage' = responseInterceptor(storage, resp)
    /\ sess' = IF resp.kind = "status" /\ resp.status = 401 THEN "401" ELSE sess
    /\ Did("ResourceResponse")
    /\ lastResp' = resp
    /\ sentHeaders' = <<>>
    /\ lastThrown' = IF resp.kind = "ok" THEN None ELSE Thrown(resp)
    /\ UNCHANGED <<token, user, authLoading, navVars, loginVars, lastSet,
                   corruptAtLoad, listVars, formVars, detailVars>>

Next ==
  \/ Reload
  \/ MountEffect
  \/ \E L \in Routes : Navigate(L)
  \/ handleLogout
  \/ handleSubmit
  \/ LoginResponse
  \/ StaleLoginResponse
  \/ ResourceRequest
  \/ ResourceResponse

Spec == Init /\ [][Next]_vars

----------------------------------------------------------------------------
\* The application is opened on whatever an earlier run left in localStorage:
\* nothing, a session, or an authUser text that JSON.parse rejects.
CorruptText == <<"{\"username\":\"sta">>

StoredStorages ==
  {[authToken |-> t, refreshToken |-> None, authUser |-> u] :
     t \in {None, Some("tA")},
     u \in {None, Some(JSONstringify(BuildUser("tA"))), Some(CorruptText)}}

\* The state once AuthProvider's useState initialisers have run on it.
InitBoot ==
  \E st \in StoredStorages :
    /\ storage = InitialStorage(st)
    /\ token = InitialToken(st)
    /\ user = InitialUser(st)
    /\ corruptAtLoad = StoredUserCorrupt(st)
    /\ authLoading = TRUE
    /\ location \in Routes
    /\ locationState = ""
    /\ allowedRoles \in RoleConfigs
    /\ loginLoading = FALSE
    /\ loginError = <<>>
    /\ staleLogins = 0
    /\ pendingRes = 0
    /\ lastOp = "Init"
    /\ sess = "stored"
    /\ lastSet = NoReturn
    /\ NoHistory
    /\ ListFresh
    /\ listReqs = <<>>
    /\ staleListReqs = 0
    /\ lastSent = <<>>
    /\ FormAbsent
  /\ DetailAbsent

SpecBoot == InitBoot /\ [][Next]_vars

----------------------------------------------------------------------------
\* The reservation list view, mounted for a user who is logged in.
InitList ==
  /\ storage = [authToken |-> Some("tA"), refreshToken |-> None,
                authUser |-> Some(JSONstringify(BuildUser("tA")))]
  /\ token = Some("tA")
  /\ user = Some(BuildUser("tA"))
  /\ authLoading = FALSE
  /\ location = "/app/reservations"
  /\ locationState = ""
  /\ allowedRoles = None
  /\ loginLoading = FALSE
  /\ loginError = <<>>
  /\ staleLogins = 0
  /\ pendingRes = 0
  /\ lastOp = "Mount"
  /\ lastResp = NoResp
  /\ lastError = <<>>
  /\ lastReturn = NoReturn
  /\ sess = "set"
  /\ lastSet = [token |-> "tA", user |-> BuildUser("tA")]
  /\ corruptAtLoad = FALSE
  /\ requested = ""
  /\ guardL = "/app/reservations"
  /\ guardOut = "outlet"
  /\ lastThrown = None
  /\ ListFresh
  /\ listReqs = <<Params(1, currentFilters("", "", "", ""))>>
  /\ staleListReqs = 0
  /\ lastSent = <<Params(1, currentFilters("", "", "", ""))>>
  /\ sentHeaders = <<Some(<<"Bearer", "tA">>)>>
  /\ lastData = NoData
  /\ FormAbsent
  /\ DetailAbsent

\* Mutant: the controls stay on screen while a fetch is loading.
ControlsShown_WhileLoading ==
  /\ ~authLoading
  /\ location = "/app/reservations"
  /\ listError = ""

\* The view renders its controls: it is neither loading nor in error.
ControlsShown ==
  /\ ~authLoading
  /\ location = "/app/reservations"
  /\ ~listLoading
  /\ listError = ""

\* fetchReservations up to the await: the list call is sent.
fetchReservations(page, filters) ==
  /\ listLoading' = TRUE
  /\ listError' = ""
  /\ listReqs' = Append(listReqs, Params(page, filters))
  /\ lastSent' = <<Params(page, filters)>>
  /\ sentHeaders' = <<requestInterceptor(storage)>>

\* A render whose effect dependencies did not change: no call is sent.
NoFetch ==
  /\ UNCHANGED <<listLoading, listError, listReqs>>
  /\ lastSent' = <<>>
  /\ sentHeaders' = <<>>

\* What a list operation leaves alone outside the view.
ListFrame(op) ==
  /\ Did(op)
  /\ lastResp' = NoResp
  /\ lastData' = NoData
  /\ lastThrown' = None
  /\ UNCHANGED <<authVars, navVars, loginVars, pendingRes, sess, lastSet,
                 corruptAtLoad, staleListReqs, formVars, detailVars>>

\* The status select's onChange, then the effect.
setStatusFilter ==
  \E v \in StatusValues :
    /\ ControlsShown
    /\ v # statusFilter
    /\ statusFilter' = v
    /\ fetchReservations(currentPage,
         currentFilters(v, checkInDateFromFilter, checkInDateToFilter,
                        guestEmailFilter))
    /\ ListFrame("ChangeFilter")
    /\ UNCHANGED <<reservations, currentPage, totalPages, totalCount,
                   checkInDateFromFilter, checkInDateToFilter, guestEmailFilter>>

\* The check-in-from input's onChange, then the effect.
setCheckInDateFromFilter ==
  \E v \in DateValues :
    /\ ControlsShown
    /\ v # checkInDateFromFilter
    /\ checkInDateFromFilter' = v
    /\ fetchReservations(currentPage,
         currentFilters(statusFilter, v, checkInDateToFilter, guestEmailFilter))
    /\ ListFrame("ChangeFilter")
    /\ UNCHANGED <<reservations, currentPage, totalPages, totalCount,
                   statusFilter, checkInDateToFilter, guestEmailFilter>>

\* The check-in-to input's onChange, then the effect.
setCheckInDateToFilter ==
  \E v \in DateValues :
    /\ ControlsShown
    /\ v # checkInDateToFilter
    /\ checkInDateToFilter' = v
    /\ fetchReservations(currentPage,
         currentFilters(statusFilter, checkInDateFromFilter, v, guestEmailFilter))
    /\ ListFrame("ChangeFilter")
    /\ UNCHANGED <<reservations, currentPage, totalPages, totalCount,
                   statusFilter, checkInDateFromFilter, guestEmailFilter>>

\* The guest-email input's onChange, then the effect.
setGuestEmailFilter ==
  \E v \in EmailValues :
    /\ ControlsShown
    /\ v # guestEmailFilter
    /\ guestEmailFilter' = v
    /\ fetchReservations(currentPage,
         currentFilters(statusFilter, checkInDateFromFilter, checkInDateToFilter, v))
    /\ ListFrame("ChangeFilter")
    /\ UNCHANGED <<reservations, currentPage, totalPages, totalCount,
                   statusFilter, checkInDateFromFilter, checkInDateToFilter>>

\* Apply Filters: setCurrentPage(1); the effect runs if the page changed.
handleApplyFilters ==
  /\ ControlsShown
  /\ currentPage' = 1
  /\ IF currentPage # 1
       THEN fetchReservations(1,
              currentFilters(statusFilter, checkInDateFromFilter,
                             checkInDateToFilter, guestEmailFilter))
       ELSE NoFetch
  /\ ListFrame("ApplyFilters")
  /\ UNCHANGED <<reservations, totalPages, totalCount, filterVars>>

\* Clear Filters: every filter to '', the page to 1; the effect runs if any
\* of them changed.
handleClearFilters ==
  /\ ControlsShown
  /\ statusFilter' = ""
  /\ checkInDateFromFilter' = ""
  /\ checkInDateToFilter' = ""
  /\ guestEmailFilter' = ""
  /\ currentPage' = 1
  /\ IF currentPage # 1 \/ statusFilter # "" \/ checkInDateFromFilter # ""
        \/ checkInDateToFilter # "" \/ guestEmailFilter # ""
       THEN fetchReservations(1, currentFilters("", "", "", ""))
       ELSE NoFetch
  /\ ListFrame("ClearFilters")
  /\ UNCHANGED <<reservations, totalPages, totalCount>>

\* Next (enabled while currentPage < totalPages), then the effect.
handleNextPage ==
  /\ ControlsShown
  /\ ~(currentPage >= totalPages)
  /\ currentPage < totalPages
  /\ currentPage' = currentPage + 1
  /\ fetchReservations(currentPage + 1,
       currentFilters(statusFilter, checkInDateFromFilter, checkInDateToFilter,
                      guestEmailFilter))
  /\ ListFrame("NextPage")
  /\ UNCHANGED <<reservations, totalPages, totalCount, filterVars>>

\* Previous (enabled while currentPage > 1), then the effect.
handlePreviousPage ==
  /\ ControlsShown
  /\ ~(currentPage <= 1)
  /\ currentPage > 1
  /\ currentPage' = currentPage - 1
  /\ fetchReservations(currentPage - 1,
       currentFilters(statusFilter, checkInDateFromFilter, checkInDateToFilter,
                      guestEmailFilter))
  /\ ListFrame("PreviousPage")
  /\ UNCHANGED <<reservations, totalPages, totalCount, filterVars>>

\* Mutant: a settled call stays in flight (it is sent again).
RemoveAt_Keeps(q, i) == q

\* The sequence without its i-th element.
RemoveAt(q, i) == SubSeq(q, 1, i - 1) \o SubSeq(q, i + 1, Len(q))

\* A list call of the mounted view answers with a body: the rest of
\* fetchReservations.
ListSuccess ==
  \E i \in 1..Len(listReqs), data \in ListData :
    /\ listReqs' = RemoveAt(listReqs, i)
    /\ reservations' = [len |-> IF data.results = Missing THEN 0 ELSE data.results,
                        of |-> listReqs[i]]
    /\ totalCount' = IF data.count = Missing THEN 0 ELSE data.count
    /\ totalPages' = NewTotalPages(data, totalPages)
    /\ listError' = IF ListThrows(data) THEN FetchFailed ELSE listError
    /\ listLoading' = FALSE
    /\ Did("ListSuccess")
    /\ lastResp' = [kind |-> "ok", status |-> 200, access |-> "", refresh |-> "",
                    detail |-> ""]
    /\ lastData' = data
    /\ lastSent' = <<>>
    /\ Quiet
    /\ UNCHANGED <<authVars, navVars, loginVars, pendingRes, sess, lastSet,
                   corruptAtLoad, currentPage, filterVars, staleListReqs,
                   formVars, detailVars>>

\* A list call of the mounted view fails: the response interceptor, then the
\* catch.
ListFailure ==
  \E i \in 1..Len(listReqs), resp \in ResourceResponses :
    /\ resp.kind # "ok"
    /\ listReqs' = RemoveAt(listReqs, i)
    /\ storage' = responseInterceptor(storage, resp)
    /\ sess' = IF resp.kind = "status" /\ resp.status = 401 THEN "401" ELSE sess
    /\ listError' = FetchFailed
    /\ listLoading' = FALSE
    /\ Did("ListFailure")
    /\ lastResp' = resp
    /\ lastData' = NoData
    /\ lastSent' = <<>>
    /\ sentHeaders' = <<>>
    /\ lastThrown' = Thrown(resp)
    /\ UNCHANGED <<token, user, authLoading, navVars, loginVars, pendingRes,
                   lastSet, corruptAtLoad, reservations, totalCount, totalPages,
                   currentPage, filterVars, staleListReqs, formVars, detailVars>>

\* A list call of an unmounted view settles: only the response interceptor
\* has an effect.
StaleListResponse ==
  \E resp \in ResourceResponses :
    /\ staleListReqs > 0
    /\ staleListReqs' = staleListReqs - 1
    /\ storage' = responseInterceptor(storage, resp)
    /\ sess' = IF resp.kind = "status" /\ resp.status = 401 THEN "401" ELSE sess
    /\ Did("StaleListResponse")
    /\ lastResp' = resp
    /\ lastData' = NoData
    /\ lastSent' = <<>>
    /\ sentHeaders' = <<>>
    /\ lastThrown' = IF resp.kind = "ok" THEN None ELSE Thrown(resp)
    /\ UNCHANGED <<token, user, authLoading, navVars, loginVars, pendingRes,
                   lastSet, corruptAtLoad, reservations, totalCount, totalPages,
                   currentPage, filterVars, listReqs, listLoading, listError,
                   formVars, detailVars>>

\* The view is left and mounted again: fresh state, and the effect's first
\* fetch; the calls of the old view stay in flight.
Remount ==
  /\ ~authLoading
  /\ location = "/app/reservations"
  /\ staleListReqs + Len(listReqs) <= MaxStale
  /\ staleListReqs' = staleListReqs + Len(listReqs)
  /\ reservations' = [len |-> 0, of |-> NoParams]
  /\ currentPage' = 1
  /\ totalPages' = 0
  /\ totalCount' = 0
  /\ statusFilter' = ""
  /\ checkInDateFromFilter' = ""
  /\ checkInDateToFilter' = ""
  /\ guestEmailFilter' = ""
  /\ listLoading' = TRUE
  /\ listError' = ""
  /\ listReqs' = <<Params(1, currentFilters("", "", "", ""))>>
  /\ lastSent' = <<Params(1, currentFilters("", "", "", ""))>>
  /\ sentHeaders' = <<requestInterceptor(storage)>>
  /\ lastThrown' = None
  /\ Did("Mount")
  /\ lastResp' = NoResp
  /\ lastData' = NoData
  /\ UNCHANGED <<authVars, navVars, loginVars, pendingRes, sess, lastSet,
                 corruptAtLoad, formVars, detailVars>>

NextList ==
  \/ setStatusFilter
  \/ setCheckInDateFromFilter
  \/ setCheckInDateToFilter
  \/ setGuestEmailFilter
  \/ handleApplyFilters
  \/ handleClearFilters
  \/ handleNextPage
  \/ handlePreviousPage
  \/ ListSuccess
  \/ ListFailure
  \/ StaleListResponse
  \/ Remount

SpecList == InitList /\ [][NextList]_vars

----------------------------------------------------------------------------
\* The reservation form: /app/reservations/new and /app/reservations/7/edit.
FormIds == {"", "7"}

FormPath(id) ==
  IF id = "" THEN "/app/reservations/new" ELSE "/app/reservations/7/edit"

\* `/app/reservations/${response.id || id}`
DetailPath(responseId, id) ==
  LET target == IF responseId # "" THEN responseId ELSE id IN
  CASE target = "7" -> "/app/reservations/7"
    [] target = "8" -> "/app/reservations/8"
    [] OTHER -> "/app/reservations/undefined"

\* Response bodies of the reservation endpoints: a reservation, an object
\* of field-keyed messages, a text that is not JSON, or nothing.
Body(type, fields, returned) ==
  [type |-> type, fields |-> fields, reservation |-> returned]

NoBody == Body("none", NoFields, NoReservation)

ReservationBodies ==
  {Body("reservation", NoFields, [id |-> i, status |-> "CHECKED_IN"]) :
     i \in {"7", "8", ""}}

ValidationBodies ==
  {Body("object", f, NoReservation) :
     f \in {{<<"status", "Invalid transition">>},
            {<<"check_in_date", "This field is required.">>,
             <<"non_field_errors", "Room is not available.">>}}}

\* What the backend may answer to createReservation / updateReservation.
SubmitResponses ==
  {[kind |-> "ok", status |-> 200, data |-> b] : b \in ReservationBodies}
  \cup
  {[kind |-> "status", status |-> 400, data |-> b] :
     b \in ValidationBodies \cup {NoBody}}
  \cup
  {[kind |-> "status", status |-> 401,
    data |-> Body("object", {<<"detail", "Token is invalid or expired">>},
                  NoReservation)],
   [kind |-> "status", status |-> 500,
    data |-> Body("text", NoFields, NoReservation)],
   [kind |-> "noresponse", status |-> 0, data |-> NoBody],
   [kind |-> "setup", status |-> 0, data |-> NoBody]}

\* The error axios builds for a failed reservation call.
FormAxiosError(resp) ==
  [cause |-> IF resp.kind = "status" THEN "response"
             ELSE IF resp.kind = "noresponse" THEN "request" ELSE "setup",
   status |-> resp.status,
   data |-> resp.data]

\* createReservation / updateReservation: return response.data on success,
\* rethrow the error otherwise.
serviceReturns(resp) == resp.data.reservation

FormThrown(resp) ==
  Some(serviceRethrows(interceptorRejects(FormAxiosError(resp))))

\* handleSubmit's test of the error: err.response && err.response.data &&
\* typeof err.response.data === 'object'.
HasFieldErrors(err) == err.cause = "response" /\ err.data.type = "object"

\* Mutant: the payload is not copied into the field-error state.
FormErrorsOf_Dropped(err) == NoFields

\* The formErrors handleSubmit's catch leaves (it was reset to {} before).
FormErrorsOf(err) == IF HasFieldErrors(err) THEN err.data.fields ELSE NoFields

CorrectErrors == "Please correct the errors below."
LoadFailed == "Failed to load necessary data. Please try again."

\* err.message || 'Failed to update reservation.' / '... create ...': axios
\* errors always carry a message.
FormErrorOf(err) ==
  IF HasFieldErrors(err) THEN CorrectErrors
  ELSE IF err.cause = "response" THEN "Request failed with status code"
  ELSE IF err.cause = "request" THEN "Network Error"
  ELSE "Request setup failed"

\* What a guests / room types / rooms call may settle as: a body with (or
\* being) the list, a null body, or a failure.
LoadOutcomes == {"ok", "okNull", "failed"}
FailureResponses == {r \in ResourceResponses : r.kind # "ok"}
OkResponse ==
  [kind |-> "ok", status |-> 200, access |-> "", refresh |-> "", detail |-> ""]

\* Mutant: the three calls are awaited like Promise.allSettled.
PromiseAll_Settled(calls) ==
  IF \E c \in LoadCallNames : calls[c] = "pending"
    THEN "pending" ELSE "fulfilled"

\* Promise.all over the three calls: rejected as soon as one has failed,
\* fulfilled once all have succeeded.
PromiseAll(calls) ==
  IF \E c \in LoadCallNames : calls[c] = "failed" THEN "rejected"
  ELSE IF \E c \in LoadCallNames : calls[c] = "pending" THEN "pending"
  ELSE "fulfilled"

\* guestRes.results || guestRes (and the two like it) throws on a null body.
SetListsThrows(calls) == \E c \in LoadCallNames : calls[c] = "okNull"

\* The calls of the form in flight.
FormCallsPending ==
  Cardinality({c \in LoadCallNames : loadCalls[c] = "pending"})
  + (IF reservationCall = "pending" THEN 1 ELSE 0)
  + (IF isSubmitting THEN 1 ELSE 0)

\* The form is on screen: its route is current and it is not loading.
FormShown ==
  /\ ChildrenRendered(authLoading)
  /\ location = FormPath(formId)
  /\ loadPhase # "idle"
  /\ ~formLoading

InitForm ==
  /\ storage = [authToken |-> Some("tA"), refreshToken |-> None,
                authUser |-> Some(JSONstringify(BuildUser("tA")))]
  /\ token = Some("tA")
  /\ user = Some(BuildUser("tA"))
  /\ authLoading = FALSE
  /\ formId \in FormIds
  /\ location = FormPath(formId)
  /\ locationState = ""
  /\ allowedRoles = None
  /\ loginLoading = FALSE
  /\ loginError = <<>>
  /\ staleLogins = 0
  /\ pendingRes = 0
  /\ lastOp = "FormMount"
  /\ lastResp = NoResp
  /\ lastError = <<>>
  /\ lastReturn = NoReturn
  /\ sess = "set"
  /\ lastSet = [token |-> "tA", user |-> BuildUser("tA")]
  /\ corruptAtLoad = FALSE
  /\ requested = ""
  /\ guardL = ""
  /\ guardOut = ""
  /\ lastThrown = None
  /\ sentHeaders = [i \in 1..3 |-> Some(<<"Bearer", "tA">>)]
  /\ ListFresh
  /\ listReqs = <<>>
  /\ staleListReqs = 0
  /\ lastSent = <<>>
  /\ lastData = NoData
  /\ formLoading = TRUE
  /\ isSubmitting = FALSE
  /\ formError = ""
  /\ formErrors = NoFields
  /\ loadCalls = [c \in LoadCallNames |-> "pending"]
  /\ reservationCall = "idle"
  /\ loadPhase = "all"
  /\ formReceived = NoReservation
  /\ DetailAbsent

\* What a form operation leaves alone outside the form.
FormFrame(op) ==
  /\ Did(op)
  /\ UNCHANGED <<token, user, authLoading, locationState, allowedRoles,
                 requested, guardL, guardOut, loginVars, lastSet,
                 corruptAtLoad, listVars, detailVars>>

\* The effect of a failed call on the session: the response interceptor.
Intercepted(resp) ==
  /\ storage' = responseInterceptor(storage, resp)
  /\ sess' = IF resp.kind = "status" /\ resp.status = 401 THEN "401" ELSE sess

\* loadInitialData leaves through its catch and finally.
LoadCatch ==
  /\ formError' = LoadFailed
  /\ formLoading' = FALSE
  /\ loadPhase' = "done"

\* The form route is opened (again): a fresh ReservationFormPage, whose
\* effect starts loadInitialData; calls of the old one stay in flight.
FormMount ==
  \E id \in FormIds :
    /\ ChildrenRendered(authLoading)
    /\ isAuthenticated(token)
    /\ pendingRes + FormCallsPending <= MaxStale
    /\ pendingRes' = pendingRes + FormCallsPending
    /\ formId' = id
    /\ location' = FormPath(id)
    /\ formLoading' = TRUE
    /\ isSubmitting' = FALSE
    /\ formError' = ""
    /\ formErrors' = NoFields
    /\ loadCalls' = [c \in LoadCallNames |-> "pending"]
    /\ reservationCall' = "idle"
    /\ loadPhase' = "all"
    /\ sentHeaders' = [i \in 1..3 |-> requestInterceptor(storage)]
    /\ lastThrown' = None
    /\ lastResp' = NoResp
    /\ FormFrame("FormMount")
    /\ UNCHANGED <<storage, sess, formReceived>>

\* One of the three calls of loadInitialData settles; when that settles
\* Promise.all, loadInitialData runs on to its next await or to its end.
LoadCallSettles ==
  \E c \in LoadCallNames, o \in LoadOutcomes, resp \in FailureResponses :
    LET calls == [loadCalls EXCEPT ![c] = o]
        all == PromiseAll(calls)
        caught == all = "rejected" \/ (all = "fulfilled" /\ SetListsThrows(calls))
    IN
    /\ loadCalls[c] = "pending"
    /\ loadCalls' = calls
    /\ IF o = "failed"
         THEN Intercepted(resp) /\ lastResp' = resp
         ELSE UNCHANGED <<storage, sess>> /\ lastResp' = OkResponse
    /\ IF loadPhase # "all" \/ all = "pending"
         THEN /\ UNCHANGED <<formLoading, formError, loadPhase, reservationCall>>
              /\ sentHeaders' = <<>>
              /\ lastThrown' = None
              /\ FormFrame("LoadSettle")
         ELSE IF caught
         THEN /\ LoadCatch
              /\ UNCHANGED reservationCall
              /\ sentHeaders' = <<>>
              /\ lastThrown' = IF o = "failed" THEN Thrown(resp) ELSE None
              /\ FormFrame("LoadFailed")
         ELSE IF formId # ""
         THEN /\ reservationCall' = "pending"
              /\ loadPhase' = "reservation"
              /\ UNCHANGED <<formLoading, formError>>
              /\ sentHeaders' = <<requestInterceptor(storage)>>
              /\ lastThrown' = None
              /\ FormFrame("LoadSettle")
         ELSE /\ formLoading' = FALSE
              /\ loadPhase' = "done"
              /\ UNCHANGED <<formError, reservationCall>>
              /\ sentHeaders' = <<>>
              /\ lastThrown' = None
              /\ FormFrame("LoadSettle")
    /\ UNCHANGED <<location, pendingRes, formId, isSubmitting, formErrors,
                   formReceived>>

\* getReservationById settles: the rest of loadInitialData.
ReservationCallSettles ==
  \E ok \in BOOLEAN, resp \in FailureResponses :
    /\ reservationCall = "pending"
    /\ reservationCall' = IF ok THEN "ok" ELSE "failed"
    /\ IF ok
         THEN /\ UNCHANGED <<storage, sess, formError>>
              /\ lastResp' = OkResponse
              /\ lastThrown' = None
              /\ formLoading' = FALSE
              /\ loadPhase' = "done"
              /\ FormFrame("ReservationLoaded")
         ELSE /\ Intercepted(resp)
              /\ lastResp' = resp
              /\ lastThrown' = Thrown(resp)
              /\ LoadCatch
              /\ FormFrame("LoadFailed")
    /\ sentHeaders' = <<>>
    /\ UNCHANGED <<location, pendingRes, formId, isSubmitting, formErrors,
                   loadCalls, formReceived>>

\* ReservationFormPage.handleSubmit up to the await: one update or create
\* call is sent.
FormSubmit ==
  /\ FormShown
  /\ ~isSubmitting
  /\ isSubmitting' = TRUE
  /\ formError' = ""
  /\ formErrors' = NoFields
  /\ sentHeaders' = <<requestInterceptor(storage)>>
  /\ lastThrown' = None
  /\ lastResp' = NoResp
  /\ FormFrame("FormSubmit")
  /\ UNCHANGED <<storage, sess, location, pendingRes, formId, formLoading,
                 loadCalls, reservationCall, loadPhase, formReceived>>

\* The update / create call settles: the rest of handleSubmit.
FormSubmitSettles ==
  \E resp \in SubmitResponses :
    LET err == Val(FormThrown(resp)) IN
    /\ isSubmitting
    /\ isSubmitting' = FALSE
    /\ lastResp' = resp
    /\ sentHeaders' = <<>>
    /\ IF resp.kind = "ok"
         THEN /\ formReceived' = serviceReturns(resp)
              /\ location' = DetailPath(serviceReturns(resp).id, formId)
              /\ lastThrown' = None
              /\ UNCHANGED <<storage, sess, formError, formErrors>>
              /\ FormFrame("SubmitSuccess")
         ELSE /\ Intercepted(resp)
              /\ lastThrown' = FormThrown(resp)
              /\ formErrors' = FormErrorsOf(err)
              /\ formError' = FormErrorOf(err)
              /\ UNCHANGED <<location, formReceived>>
              /\ FormFrame("SubmitFailure")
    /\ UNCHANGED <<pendingRes, formId, formLoading, loadCalls, reservationCall,
                   loadPhase>>

\* A call of an unmounted form settles: only the response interceptor acts.
StaleFormResponse ==
  \E resp \in ResourceResponses :
    /\ pendingRes > 0
    /\ pendingRes' = pendingRes - 1
    /\ Intercepted(resp)
    /\ lastResp' = resp
    /\ sentHeaders' = <<>>
    /\ lastThrown' = IF resp.kind = "ok" THEN None ELSE Thrown(resp)
    /\ FormFrame("StaleFormResponse")
    /\ UNCHANGED <<location, formVars>>

NextForm ==
  \/ FormMount
  \/ LoadCallSettles
  \/ ReservationCallSettles
  \/ FormSubmit
  \/ FormSubmitSettles
  \/ StaleFormResponse

SpecForm == InitForm /\ [][NextForm]_vars

----------------------------------------------------------------------------
\* The reservation detail view.
DetailId == "7"
DetailLocation == "/app/reservations/7"

\* The statuses a reservation may have in a response.
Statuses == {"PENDING", "CONFIRMED", "CHECKED_IN", "CHECKED_OUT", "CANCELLED"}

\* What getReservationById may return: a reservation, or a null body.
DetailBodies == {None} \cup {Some([status |-> st]) : st \in Statuses}

\* The status actions, each with the endpoint its service posts to.
Actions == {"check_in", "check_out", "cancel"}

\* What the backend may answer to a failed status action.
ActionFailures ==
  FailureResponses \cup
  {[kind |-> "status", status |-> 400, access |-> "", refresh |-> "",
    detail |-> "Reservation cannot be changed."]}

FetchDetailFailed == "Failed to fetch reservation details for ID 7."

\* The success message each handler passes to handleAction.
SuccessMessage(action) ==
  CASE action = "check_in" -> "Guest checked-in successfully."
    [] action = "check_out" -> "Guest checked-out successfully."
    [] OTHER -> "Reservation cancelled successfully."

\* err.response?.data?.detail || err.response?.data?.error || err.message ||
\* 'Action failed.': axios errors always carry a message.
ActionErrorOf(resp) ==
  IF resp.kind = "status" /\ resp.detail # "" THEN resp.detail
  ELSE IF resp.kind = "status" THEN "Request failed with status code"
  ELSE IF resp.kind = "noresponse" THEN "Network Error"
  ELSE "Request setup failed"

\* Mutant: the check-in button is offered for a pending reservation too.
ButtonShown_CheckInPending(action, status) ==
  CASE action = "check_in" -> status \in {"PENDING", "CONFIRMED"}
    [] action = "check_out" -> status = "CHECKED_IN"
    [] OTHER -> status \in {"PENDING", "CONFIRMED"}

\* The conditional rendering of the action buttons on reservation.status.
ButtonShown(action, status) ==
  CASE action = "check_in" -> status = "CONFIRMED"
    [] action = "check_out" -> status = "CHECKED_IN"
    [] OTHER -> status = "PENDING" \/ status = "CONFIRMED"

\* Mutant: the buttons are never disabled.
ActionEnabled_Always(loadingAction) == TRUE

\* disabled={isLoadingAction} on each button.
ActionEnabled(loadingAction) == ~loadingAction

\* The messages and flags of the view, as one value the setters act on.
ViewState(loading, err, aErr, aOk, loadingAction) ==
  [isLoading |-> loading, error |-> err, actionError |-> aErr,
   actionSuccess |-> aOk, isLoadingAction |-> loadingAction]

\* fetchReservationDetails up to its call: the four setters.
fetchReservationDetails(v) ==
  [v EXCEPT !.isLoading = TRUE, !.error = "", !.actionError = "",
            !.actionSuccess = ""]

\* handleAction up to its await.
handleAction(v) ==
  [v EXCEPT !.isLoadingAction = TRUE, !.actionError = "", !.actionSuccess = ""]

\* handleAction after its await, the action having succeeded:
\* setActionSuccess, fetchReservationDetails, then the finally.
handleActionResolved(v, successMessage) ==
  LET v1 == [v EXCEPT !.actionSuccess = successMessage]
      v2 == fetchReservationDetails(v1)
  IN [v2 EXCEPT !.isLoadingAction = FALSE]

\* handleAction after its await, the action having failed: the catch, then
\* the finally.
handleActionRejected(v, resp) ==
  [v EXCEPT !.actionError = ActionErrorOf(resp), !.isLoadingAction = FALSE]

\* The view renders the reservation and its buttons: none of the three early
\* returns applies.
DetailShown ==
  /\ ChildrenRendered(authLoading)
  /\ isAuthenticated(token)
  /\ location = DetailLocation
  /\ ~detailLoading
  /\ detailError = ""
  /\ reservation # None

\* The view state after a setter sequence that ended in v.
SetView(v) ==
  /\ detailLoading' = v.isLoading
  /\ detailError' = v.error
  /\ actionError' = v.actionError
  /\ actionSuccess' = v.actionSuccess
  /\ isLoadingAction' = v.isLoadingAction

CurrentView ==
  ViewState(detailLoading, detailError, actionError, actionSuccess,
            isLoadingAction)

\* An authenticated user has just opened the detail of reservation 7: the
\* state initialisers, and the effect has called fetchReservationDetails.
InitDetail ==
  /\ storage = [authToken |-> Some("tA"), refreshToken |-> None,
                authUser |-> Some(JSONstringify(BuildUser("tA")))]
  /\ token = Some("tA")
  /\ user = Some(BuildUser("tA"))
  /\ authLoading = FALSE
  /\ location = DetailLocation
  /\ locationState = ""
  /\ allowedRoles = None
  /\ loginLoading = FALSE
  /\ loginError = <<>>
  /\ staleLogins = 0
  /\ pendingRes = 0
  /\ lastOp = "DetailMount"
  /\ lastResp = NoResp
  /\ lastError = <<>>
  /\ lastReturn = NoReturn
  /\ sess = "set"
  /\ lastSet = [token |-> "tA", user |-> BuildUser("tA")]
  /\ corruptAtLoad = FALSE
  /\ requested = ""
  /\ guardL = ""
  /\ guardOut = ""
  /\ lastThrown = None
  /\ sentHeaders = <<Some(<<"Bearer", "tA">>)>>
  /\ ListFresh
  /\ listReqs = <<>>
  /\ staleListReqs = 0
  /\ lastSent = <<>>
  /\ lastData = NoData
  /\ FormAbsent
  /\ reservation = None
  /\ detailLoading = TRUE
  /\ detailError = ""
  /\ isLoadingAction = FALSE
  /\ actionError = ""
  /\ actionSuccess = ""
  /\ detailFetches = 1
  /\ actionCalls = <<>>
  /\ refreshAfter = ""
  /\ sentAction = ""

\* What a detail operation leaves alone outside the detail view.
DetailFrame(op) ==
  /\ Did(op)
  /\ UNCHANGED <<token, user, authLoading, location, locationState,
                 allowedRoles, requested, guardL, guardOut, loginVars, lastSet,
                 corruptAtLoad, listVars, formVars>>

\* The detail route is opened (again): a fresh ReservationDetailPage, whose
\* effect calls fetchReservationDetails; calls of the old one stay in flight.
DetailMount ==
  /\ ChildrenRendered(authLoading)
  /\ isAuthenticated(token)
  /\ pendingRes + detailFetches + Len(actionCalls) <= MaxStale
  /\ pendingRes' = pendingRes + detailFetches + Len(actionCalls)
  /\ reservation' = None
  /\ SetView(fetchReservationDetails(ViewState(TRUE, "", "", "", FALSE)))
  /\ detailFetches' = 1
  /\ actionCalls' = <<>>
  /\ refreshAfter' = ""
  /\ sentAction' = ""
  /\ sentHeaders' = <<requestInterceptor(storage)>>
  /\ lastThrown' = None
  /\ lastResp' = NoResp
  /\ DetailFrame("DetailMount")
  /\ UNCHANGED <<storage, sess>>

\* getReservationById settles: the then, or the catch, of
\* fetchReservationDetails.
DetailFetchSettles ==
  /\ detailFetches > 0
  /\ detailFetches' = detailFetches - 1
  /\ \/ \E data \in DetailBodies :
          /\ reservation' = data
          /\ detailLoading' = FALSE
          /\ lastResp' = OkResponse
          /\ lastThrown' = None
          /\ DetailFrame("DetailLoaded")
          /\ UNCHANGED <<storage, sess, detailError>>
     \/ \E resp \in FailureResponses :
          /\ Intercepted(resp)
          /\ detailError' = FetchDetailFailed
          /\ detailLoading' = FALSE
          /\ lastResp' = resp
          /\ lastThrown' = Thrown(resp)
          /\ DetailFrame("DetailFetchFailed")
          /\ UNCHANGED reservation
  /\ sentHeaders' = <<>>
  /\ sentAction' = ""
  /\ UNCHANGED <<pendingRes, isLoadingAction, actionError, actionSuccess,
                 actionCalls, refreshAfter>>

\* A click on a rendered, enabled action button: the service posts to the
\* action's endpoint and handleAction runs up to its await.
SendAction(action) ==
  /\ DetailShown
  /\ ButtonShown(action, Val(reservation).status)
  /\ ActionEnabled(isLoadingAction)
  /\ actionCalls' = Append(actionCalls, action)
  /\ SetView(handleAction(CurrentView))
  /\ sentHeaders' = <<requestInterceptor(storage)>>
  /\ sentAction' = action
  /\ refreshAfter' = ""
  /\ lastResp' = NoResp
  /\ lastThrown' = None
  /\ DetailFrame("ActionSent")
  /\ UNCHANGED <<storage, sess, pendingRes, reservation, detailFetches>>

handleCheckIn == SendAction("check_in")

handleCheckOut == SendAction("check_out")

\* The user has confirmed the window.confirm dialog.
handleCancelReservation == SendAction("cancel")

\* The oldest status action in flight settles: handleAction resumes after
\* its await.
ActionSettles ==
  /\ actionCalls # <<>>
  /\ actionCalls' = Tail(actionCalls)
  /\ sentAction' = ""
  /\ \/ /\ SetView(handleActionResolved(CurrentView,
                                        SuccessMessage(Head(actionCalls))))
        /\ detailFetches' = detailFetches + 1
        /\ refreshAfter' = SuccessMessage(Head(actionCalls))
        /\ sentHeaders' = <<requestInterceptor(storage)>>
        /\ lastResp' = OkResponse
        /\ lastThrown' = None
        /\ DetailFrame("ActionSucceeded")
        /\ UNCHANGED <<storage, sess>>
     \/ \E resp \in ActionFailures :
          /\ Intercepted(resp)
          /\ SetView(handleActionRejected(CurrentView, resp))
          /\ sentHeaders' = <<>>
          /\ lastResp' = resp
          /\ lastThrown' = Thrown(resp)
          /\ DetailFrame("ActionFailed")
          /\ UNCHANGED <<detailFetches, refreshAfter>>
  /\ UNCHANGED <<pendingRes, reservation>>

\* A call of an unmounted detail view settles: only the response interceptor
\* acts.
StaleDetailResponse ==
  \E resp \in ResourceResponses :
    /\ pendingRes > 0
    /\ pendingRes' = pendingRes - 1
    /\ Intercepted(resp)
    /\ lastResp' = resp
    /\ sentHeaders' = <<>>
    /\ lastThrown' = IF resp.kind = "ok" THEN None ELSE Thrown(resp)
    /\ DetailFrame("StaleDetailResponse")
    /\ UNCHANGED detailVars

NextDetail ==
  \/ DetailMount
  \/ DetailFetchSettles
  \/ handleCheckIn
  \/ handleCheckOut
  \/ handleCancelReservation
  \/ ActionSettles
  \/ StaleDetailResponse

SpecDetail == InitDetail /\ [][NextDetail]_vars

----------------------------------------------------------------------------
\* The Session Store holds nothing, in durable storage or in memory.
SessionEmpty ==
  /\ storage.authToken = None
  /\ storage.authUser = None
  /\ token = None
  /\ user = None

Got401 == lastResp.kind = "status" /\ lastResp.status = 401

LoginFailed == lastOp \in {"LoginFailure", "StaleLoginFailure"}
LoginSucceeded == lastOp \in {"LoginSuccess", "StaleLoginSuccess"}

\* C1: right after any Gateway Client call (a resource call or the token
\* call) has received a 401, the Session Store is empty: no credential and no
\* profile in durable storage or in memory.
C1_Claim == Got401 => SessionEmpty

\* C2: in every state the credential and the profile are present together or
\* absent together, in durable storage and in memory.
C2_Claim ==
  /\ (storage.authToken # None) <=> (storage.authUser # None)
  /\ (token # None) <=> (user # None)

\* C3: isAuthenticated() is true when the most recent of the set / clear
\* calls on the Session Store was a set, and false when it was a clear or when
\* there has been none (no 401 having touched the session since).
C3_IsAuthenticatedFollowsLastCall ==
  /\ sess = "set" => isAuthenticated(token)
  /\ sess \in {"none", "clear"} => ~isAuthenticated(token)

C3_Witness ==
  /\ sess = "clear"
  /\ lastOp = "Reload"
  /\ storage.refreshToken # None
  /\ ~isAuthenticated(token)

\* C4: once a call has received a 401 (and no login or logout has followed),
\* a navigation to a route behind the guard ends on the login page.
C4_Claim == (sess = "401" /\ lastOp = "Navigate") => location = "/login"

\* C7: a failed login throws an Error whose message is the backend's detail
\* when the rejection carries one, and is labelled 'Login failed' when the
\* response has no access credential or no detail; the page shows that
\* message; and a Session Store that was empty before is empty afterwards.
C7_FailedLogin ==
  [][LoginFailed' =>
       /\ (lastResp'.kind = "status" /\ lastResp'.detail # "")
            => lastError' = <<lastResp'.detail>>
       /\ (lastResp'.kind = "ok" \/ (lastResp'.kind = "status" /\ lastResp'.detail = ""))
            => lastError'[1] = "Login failed"
       /\ lastOp' = "LoginFailure" => loginError' = lastError'
       /\ SessionEmpty => SessionEmpty']_vars

C7_Witness ==
  /\ lastOp = "LoginFailure"
  /\ lastResp.status = 401
  /\ lastResp.detail = "No active account found"
  /\ loginError = <<"No active account found">>
  /\ SessionEmpty

\* C8: right after a successful login the Session Store holds the access
\* credential of the response and the profile built from its claims
\* (username and role, 'User' and 'GUEST' where a claim is absent or the
\* token does not decode), in memory and in durable storage, and that pair is
\* the one authService.login returned.
C8_SuccessfulLogin ==
  LoginSucceeded =>
    LET a == lastResp.access
        p == JwtPayload(a)
        profile == [username |-> IF p.decodable /\ p.username # ""
                                   THEN p.username ELSE "User",
                    role |-> IF p.decodable /\ p.role # "" THEN p.role ELSE "GUEST"]
    IN
    /\ a \in Tokens
    /\ lastReturn = [token |-> a, user |-> profile]
    /\ token = Some(a)
    /\ user = Some(profile)
    /\ storage.authToken = Some(a)
    /\ storage.authUser # None
    /\ JSONparseOk(Val(storage.authUser))
    /\ JSONparse(Val(storage.authUser)) = profile

C8_Witness ==
  /\ lastOp = "LoginSuccess"
  /\ lastResp.access = "tX"
  /\ user = Some([username |-> "User", role |-> "GUEST"])
  /\ storage.authToken = Some("tX")

\* C9: right after logout the Session Store is empty: isAuthenticated() is
\* false, the credential and the profile are absent from memory, and the
\* authToken and authUser keys are absent from durable storage.
C9_LogoutClears ==
  lastOp = "Logout" =>
    /\ ~isAuthenticated(token)
    /\ token = None
    /\ user = None
    /\ storage.authToken = None
    /\ storage.authUser = None

C9_Witness ==
  /\ lastOp = "Logout"
  /\ sess = "clear"
  /\ location = "/login"
  /\ SessionEmpty

\* C10: when the guard has sent an unauthenticated navigation to a guarded
\* location L to the login page, the next successful login from that page
\* lands on L (L being open to the role that logged in).
C10_Claim ==
  (lastOp = "LoginSuccess" /\ requested # ""
     /\ ProtectedRoute(token, user, RouteRoles(requested)) = "outlet")
    => location = requested

\* C5: right after any single filter field is changed, the current page is 1
\* and exactly one list request has been sent, carrying page 1 and the new
\* combined filter set.
C5_Claim ==
  lastOp = "ChangeFilter" =>
    /\ currentPage = 1
    /\ lastSent = <<[page |-> 1, status |-> statusFilter,
                     check_in_date__gte |-> checkInDateFromFilter,
                     check_in_date__lte |-> checkInDateToFilter,
                     search |-> guestEmailFilter]>>

\* C6: right after a list fetch has succeeded, totalPages is
\* ceil(count / pageSize) for the count of that response (a missing count
\* counting as 0), whatever the shape of the response.
C6_Claim ==
  (lastOp = "ListSuccess" /\ listError = "") =>
    LET count == IF lastData.count = Missing THEN 0 ELSE lastData.count IN
    /\ totalPages * PageSize >= count
    /\ (totalPages - 1) * PageSize < count

----------------------------------------------------------------------------
\* C11: when the guard decides on a route with an allowed role set for an
\* authenticated session whose profile has a role outside that set, it
\* redirects to the default landing page /app/dashboard, never to /login.
C11_RoleMismatchToLanding ==
  (/\ guardL # ""
   /\ RouteRoles(guardL) # None
   /\ isAuthenticated(token)
   /\ user # None
   /\ Val(user).role # ""
   /\ Val(user).role \notin Val(RouteRoles(guardL)))
    => /\ guardOut = "dashboard"
       /\ location = "/app/dashboard"
       /\ location # "/login"

C11_Witness ==
  /\ lastOp = "Navigate"
  /\ guardL = "/app/reservations"
  /\ allowedRoles = Some({"ADMIN"})
  /\ isAuthenticated(token)
  /\ user = Some([username |-> "User", role |-> "FRONT_DESK"])
  /\ location = "/app/dashboard"

\* C12: a route with a required role set is rendered only for a session that
\* is authenticated and whose profile's role is in the set; in every other
\* session state that login, logout, 401 and reload lead to, the guard's
\* decision is a redirect and the route is not the current location.
C12_OnlyAllowedRolesRender ==
  LET Allowed(L) == /\ isAuthenticated(token)
                    /\ user # None
                    /\ Val(user).role \in Val(RouteRoles(L))
  IN
  /\ (guardL # "" /\ RouteRoles(guardL) # None)
       => /\ guardOut = "outlet" => Allowed(guardL)
          /\ ~Allowed(guardL) => (guardOut \in {"login", "dashboard"}
                                   /\ location # guardL)
  /\ (ChildrenRendered(authLoading) /\ location \in GuardedRoutes
        /\ RouteRoles(location) # None)
       => Allowed(location)

C12_Witness ==
  /\ lastOp = "MountEffect"
  /\ guardL = "/app/reservations"
  /\ allowedRoles = Some({"ADMIN"})
  /\ guardOut = "outlet"
  /\ location = "/app/reservations"
  /\ user = Some([username |-> "staff", role |-> "ADMIN"])

\* C13: once the initial load after a reload has finished, a session that
\* was last set (and not touched by a 401 since) is back in memory with the
\* credential and the profile that were set and isAuthenticated() is true;
\* a session that was last cleared, or never set, is empty and
\* isAuthenticated() is false.
C13_SurvivesReload ==
  /\ (lastOp = "MountEffect" /\ sess = "set")
       => /\ token = Some(lastSet.token)
          /\ user = Some(lastSet.user)
          /\ isAuthenticated(token)
  /\ (lastOp = "MountEffect" /\ sess \in {"clear", "none"})
       => /\ SessionEmpty
          /\ ~isAuthenticated(token)

C13_Witness ==
  /\ lastOp = "MountEffect"
  /\ sess = "set"
  /\ lastSet = [token |-> "tF", user |-> [username |-> "User", role |-> "FRONT_DESK"]]
  /\ token = Some("tF")
  /\ user = Some([username |-> "User", role |-> "FRONT_DESK"])

\* C14: while the auth loading flag is true nothing behind AuthProvider has
\* been rendered since the load began: no guard decision, no navigation, no
\* view operation; and the guard's first decision, made with the storage read
\* back, never sends a user whose session is stored to the login page.
C14_NoRenderWhileLoading ==
  /\ authLoading => (lastOp \in {"Init", "Reload"} /\ guardOut = "")
  /\ (lastOp = "MountEffect" /\ storage.authToken # None
        /\ storage.authUser # None)
       => guardOut # "login"

C14_Witness ==
  /\ lastOp = "MountEffect"
  /\ ~authLoading
  /\ storage.authToken = Some("tA")
  /\ storage.authUser # None
  /\ guardL = "/app/dashboard"
  /\ guardOut = "outlet"
  /\ location = "/app/dashboard"

\* C15: every request just sent carries "Bearer <credential>" for the
\* credential the Session Store holds (in memory as in localStorage), and no
\* Authorization header exactly when the store holds no credential.
C15_Claim ==
  \A i \in 1..Len(sentHeaders) :
    /\ sentHeaders[i] = (IF storage.authToken # None
                           THEN Some(<<"Bearer", Val(storage.authToken)>>)
                           ELSE None)
    /\ sentHeaders[i] = (IF token # None
                           THEN Some(<<"Bearer", Val(token)>>)
                           ELSE None)

\* A resource call has just failed with something other than a 401.
FailedNot401 ==
  /\ lastOp \in {"ResourceResponse", "ListFailure", "StaleListResponse"}
  /\ lastResp.kind # "ok"
  /\ ~Got401

\* C16: when a resource call fails with a non-401 status, with no response
\* or in request setup, the caller receives the error with the cause, the
\* status and the payload of that failure, and localStorage and the
\* credential and profile in memory are what they were before.
C16_OtherFailuresSurfaced ==
  [][FailedNot401' =>
       /\ lastThrown' # None
       /\ Val(lastThrown').status = lastResp'.status
       /\ Val(lastThrown').data = lastResp'.detail
       /\ Val(lastThrown').cause =
            (CASE lastResp'.kind = "status" -> "response"
               [] lastResp'.kind = "noresponse" -> "request"
               [] OTHER -> "setup")
       /\ UNCHANGED <<storage, token, user>>]_vars

C16_Witness ==
  /\ lastOp = "ListFailure"
  /\ lastResp.status = 400
  /\ lastThrown = Some([cause |-> "response", status |-> 400,
                         data |-> "Invalid page."])
  /\ storage.authToken = Some("tA")
  /\ token = Some("tA")

\* List calls in flight, of the mounted view and of unmounted ones.
InFlight == Len(listReqs) + staleListReqs

\* C17: every step sends at most one list request, and only a user operation
\* sends one; a call that settles leaves the calls in flight one fewer and
\* sends nothing (no retry, also after a 401); a failure is handed to its
\* caller in that one step, which shows the error and ends the loading.
C17_OneRequestNoRetry ==
  [][/\ Len(lastSent') <= 1
     /\ Len(sentHeaders') = Len(lastSent')
     /\ lastOp' \in {"ListSuccess", "ListFailure", "StaleListResponse"}
          => (lastSent' = <<>> /\ InFlight' = InFlight - 1)
     /\ lastOp' \notin {"ListSuccess", "ListFailure", "StaleListResponse"}
          => (InFlight' = InFlight + Len(lastSent') /\ lastThrown' = None)
     /\ lastOp' = "ListFailure"
          => (lastThrown' # None /\ listError' = FetchFailed /\ ~listLoading')]_vars

C17_Witness ==
  /\ lastOp = "ListFailure"
  /\ Got401
  /\ lastSent = <<>>
  /\ InFlight = 0
  /\ listError = FetchFailed
  /\ ~listLoading

\* C20: when the initial load found a stored profile that does not parse,
\* then once the load has finished the whole session is gone: no authToken
\* and no authUser in localStorage, no credential and no profile in memory,
\* and isAuthenticated() is false.
C20_Claim ==
  (lastOp = "MountEffect" /\ corruptAtLoad)
    => (SessionEmpty /\ ~isAuthenticated(token))

\* C18: when update or create succeeds, the caller has received the
\* reservation the backend returned; when the backend answers with an object
\* of field-keyed messages, the error the caller receives carries exactly that
\* object and the form's field-error state equals it, key for key.
C18_SubmitOutcome ==
  /\ lastOp = "SubmitSuccess"
       => /\ lastResp.data.type = "reservation"
          /\ formReceived = lastResp.data.reservation
          /\ formReceived.status = "CHECKED_IN"
  /\ (lastOp = "SubmitFailure" /\ lastResp.kind = "status"
        /\ lastResp.data.type = "object")
       => /\ lastThrown # None
          /\ Val(lastThrown).status = lastResp.status
          /\ Val(lastThrown).data = lastResp.data
          /\ formErrors = lastResp.data.fields
          /\ \A kv \in lastResp.data.fields : kv \in formErrors

C18_Witness ==
  /\ lastOp = "SubmitFailure"
  /\ formId = "7"
  /\ lastResp.status = 400
  /\ formErrors = {<<"status", "Invalid transition">>}
  /\ formError = CorrectErrors
  /\ ~isSubmitting

\* C19: a form that has just mounted has its guests, room types and rooms
\* calls in flight together and no reservation call; the reservation call
\* exists only on the edit form and only once all three have succeeded; once
\* one of the three has failed there is no reservation call, the loading flag
\* is false, and the step that caught the failure has set the load error.
C19_LoadSequencing ==
  /\ lastOp = "FormMount"
       => /\ \A c \in LoadCallNames : loadCalls[c] = "pending"
          /\ Len(sentHeaders) = 3
          /\ reservationCall = "idle"
          /\ formLoading
  /\ reservationCall # "idle"
       => /\ formId # ""
          /\ \A c \in LoadCallNames : loadCalls[c] = "ok"
  /\ (\E c \in LoadCallNames : loadCalls[c] = "failed")
       => /\ reservationCall = "idle"
          /\ loadPhase = "done"
          /\ ~formLoading
  /\ lastOp = "LoadFailed"
       => /\ formError = LoadFailed
          /\ ~formLoading

C19_Witness ==
  /\ lastOp = "LoadFailed"
  /\ formId = "7"
  /\ loadCalls["guests"] = "ok"
  /\ loadCalls["roomTypes"] = "failed"
  /\ loadCalls["rooms"] = "pending"
  /\ reservationCall = "idle"
  /\ formError = LoadFailed
  /\ ~formLoading

\* C23: on the list view currentPage is always at least 1, Previous leaves it
\* at least 1, and right after Next it is at most the number of pages of the
\* last successful fetch, ceil(count / pageSize) of the count that fetch left
\* in totalCount.
C23_Claim ==
  /\ currentPage >= 1
  /\ lastOp = "PreviousPage" => currentPage >= 1
  /\ lastOp = "NextPage" => currentPage <= CeilDiv(totalCount, PageSize)

\* C25: once the initial load is over, the credential in memory (what
\* isAuthenticated() and the guard read) is present exactly when the authToken
\* of localStorage (what the request interceptor attaches) is present.
C25_Claim ==
  ChildrenRendered(authLoading)
    => (isAuthenticated(token) <=> requestInterceptor(storage) # None)

C27_Claim ==
  [][(LoginFailed' /\ token # None /\ storage.authToken # None)
       => /\ storage'.authToken = storage.authToken
          /\ storage'.authUser = storage.authUser
          /\ token' = token
          /\ user' = user]_vars

\* C28: right after the user has logged out through MainLayout, localStorage
\* holds none of the keys a login writes: authToken, refreshToken and
\* authUser are all absent.
C28_Claim ==
  lastOp = "Logout"
    => /\ storage.authToken = None
       /\ storage.refreshToken = None
       /\ storage.authUser = None

\* C21: when the reservation refreshed after a successful check-in, check-out
\* or cancel is displayed, the success message of that action is still set.
C21_Claim ==
  (lastOp = "DetailLoaded" /\ refreshAfter # "" /\ DetailShown)
    => actionSuccess = refreshAfter

\* C22: a check_in request is sent only while the reservation last fetched is
\* CONFIRMED, a check_out request only while it is CHECKED_IN, a cancel
\* request only while it is PENDING or CONFIRMED; and the reservation the view
\* holds changes only when a fetch response replaces it (or a fresh view
\* starts without one): sending an action and its settling leave it alone.
C22_ActionsFollowFetchedStatus ==
  /\ [](lastOp = "ActionSent"
         => /\ reservation # None
            /\ sentAction = "check_in" => Val(reservation).status = "CONFIRMED"
            /\ sentAction = "check_out" => Val(reservation).status = "CHECKED_IN"
            /\ sentAction = "cancel"
                 => Val(reservation).status \in {"PENDING", "CONFIRMED"})
  /\ [][/\ (reservation' # reservation /\ reservation' # None)
             => lastOp' = "DetailLoaded"
        /\ (reservation' # reservation /\ reservation' = None)
             => lastOp' \in {"DetailLoaded", "DetailMount"}]_vars

C22_Witness ==
  /\ lastOp = "ActionSent"
  /\ sentAction = "cancel"
  /\ reservation = Some([status |-> "PENDING"])
  /\ actionCalls = <<"cancel">>

====
